---------------------------- MODULE Spec2Model ----------------------------
(***************************************************************************)
(* KCD2 dice calculator: the scoring functions (scoring_system.py), the    *)
(* keep-option enumerator and the turn engine (turn_simulator.py), and the *)
(* policy settings the game simulator stores on a simulator                *)
(* (game_simulator.py).                                                    *)
(*                                                                         *)
(* Rolls are sequences of face values; dice indices are 1-based here       *)
(* (Python's index i is i+1).  Expected values are floats with one decimal *)
(* in the source and are kept in tenths (ev10 = 10 * expected_value).      *)
(***************************************************************************)
EXTENDS Integers, Sequences, FiniteSets, TLC

\* A die has six sides, 1..6.
NumSides == 6
\* The game is played with at most six dice (num_dice default).
MaxRollLen == 6

Faces == 1..NumSides

Max(a, b) == IF a >= b THEN a ELSE b

Range(s) == {s[i] : i \in DOMAIN s}

RECURSIVE Pow2(_)
Pow2(n) == IF n <= 0 THEN 1 ELSE 2 * Pow2(n - 1)

\* All rolls of exactly n dice.
RollsOfLen(n) == [1..n -> Faces]

AllRolls == UNION {RollsOfLen(n) : n \in 1..MaxRollLen}

(***************************************************************************)
(* scoring_system.py                                                       *)
(***************************************************************************)

\* SCORING_RULES
single_1 == 100
single_5 == 50
partial_straight_1 == 500
partial_straight_2 == 750
full_straight == 1500

\* SCORING_RULES['three_<v>']
three_of(v) == IF v = 1 THEN 1000 ELSE v * 100

\* Counter(dice_values): occurrences of each face.
CounterOf(values) ==
    [v \in Faces |-> Cardinality({i \in DOMAIN values : values[i] = v})]

\* remaining_dice.remove(val) for each val of a straight: one die of each.
RemoveOneEach(cnt, S) == [v \in Faces |-> IF v \in S THEN cnt[v] - 1 ELSE cnt[v]]

\* PyKinds with the dice of a scored group left in remaining_dice.
RECURSIVE PyKinds_KeepsGroupDice(_, _, _)
PyKinds_KeepsGroupDice(v, rem, total) ==
    IF v = 0 THEN [total |-> total, remaining |-> rem]
    ELSE IF rem[v] >= 3
         THEN PyKinds_KeepsGroupDice(v - 1, rem,
                 total + three_of(v) * Pow2(rem[v] - 3))
         ELSE PyKinds_KeepsGroupDice(v - 1, rem, total)

\* PyKinds with "count >= 2" for "count >= 3".
RECURSIVE PyKinds_FromPairs(_, _, _)
PyKinds_FromPairs(v, rem, total) ==
    IF v = 0 THEN [total |-> total, remaining |-> rem]
    ELSE IF rem[v] >= 2
         THEN PyKinds_FromPairs(v - 1, [rem EXCEPT ![v] = 0],
                 total + three_of(v) * Pow2(rem[v] - 3))
         ELSE PyKinds_FromPairs(v - 1, rem, total)

\* The X-of-a-kind loop of score_dice_roll: values from high to low, the
\* count read from remaining_counter; a group of three or more scores
\* three_<v> * 2^(count-3) and all its dice leave remaining_dice.
RECURSIVE PyKinds(_, _, _)
PyKinds(v, rem, total) ==
    IF v = 0 THEN [total |-> total, remaining |-> rem]
    ELSE IF rem[v] >= 3
         THEN LET score == IF rem[v] > 3
                           THEN three_of(v) * Pow2(rem[v] - 3)
                           ELSE three_of(v)
              IN  PyKinds(v - 1, [rem EXCEPT ![v] = 0], total + score)
         ELSE PyKinds(v - 1, rem, total)

\* PyCombos with a straight taking every die of its values.
PyCombos_StraightTakesAll(dice_values) ==
    LET present == Range(dice_values)
        cnt     == CounterOf(dice_values)
    IN  IF (1..5) \subseteq present
        THEN [total |-> partial_straight_1,
              remaining |-> [v \in Faces |-> IF v \in 1..5 THEN 0 ELSE cnt[v]]]
        ELSE IF (2..6) \subseteq present
        THEN [total |-> partial_straight_2,
              remaining |-> [v \in Faces |-> IF v \in 2..6 THEN 0 ELSE cnt[v]]]
        ELSE PyKinds(NumSides, cnt, 0)

\* score_dice_roll up to the singles: the partial straights, else the
\* X-of-a-kind groups.  Gives total_score and remaining_dice (as counts).
PyCombos(dice_values) ==
    LET present == Range(dice_values)
        cnt     == CounterOf(dice_values)
    IN  IF (1..5) \subseteq present
        THEN [total |-> partial_straight_1, remaining |-> RemoveOneEach(cnt, 1..5)]
        ELSE IF (2..6) \subseteq present
        THEN [total |-> partial_straight_2, remaining |-> RemoveOneEach(cnt, 2..6)]
        ELSE PyKinds(NumSides, cnt, 0)

\* score_dice_roll without the full-straight test.
score_dice_roll_NoFullStraight(dice_values) ==
    LET c == PyCombos(dice_values)
    IN  c.total + c.remaining[1] * single_1 + c.remaining[5] * single_5

\* score_dice_roll(dice_values)[0]: the descriptive scorer's total_score.
score_dice_roll(dice_values) ==
    IF (1..6) \subseteq Range(dice_values)
    THEN full_straight
    ELSE LET c == PyCombos(dice_values)
         IN  c.total + c.remaining[1] * single_1 + c.remaining[5] * single_5

\* NumbaKinds without the doubling for the dice beyond three.
RECURSIVE NumbaKinds_NoDoubling(_, _, _)
NumbaKinds_NoDoubling(v, counts, total) ==
    IF v = 0 THEN [total |-> total, counts |-> counts]
    ELSE IF counts[v] >= 3
         THEN NumbaKinds_NoDoubling(v - 1, [counts EXCEPT ![v] = 0],
                 total + (IF v = 1 THEN 1000 ELSE v * 100))
         ELSE NumbaKinds_NoDoubling(v - 1, counts, total)

\* The three-or-more-of-a-kind loop of _score_dice_roll_numba.
RECURSIVE NumbaKinds(_, _, _)
NumbaKinds(v, counts, total) ==
    IF v = 0 THEN [total |-> total, counts |-> counts]
    ELSE IF counts[v] >= 3
         THEN LET base  == IF v = 1 THEN 1000 ELSE v * 100
                  score == IF counts[v] > 3 THEN base * Pow2(counts[v] - 3) ELSE base
              IN  NumbaKinds(v - 1, [counts EXCEPT ![v] = 0], total + score)
         ELSE NumbaKinds(v - 1, counts, total)

\* _score_dice_roll_numba(arr): the numeric fast-path scorer.
score_dice_roll_numba(arr) ==
    LET n      == Len(arr)
        counts == CounterOf(arr)
        full   == \A v \in 1..6 : counts[v] # 0
        p1     == \A v \in 1..5 : counts[v] # 0
        p2     == \A v \in 2..6 : counts[v] # 0
        st     == IF p1 THEN [total |-> 500, counts |-> RemoveOneEach(counts, 1..5)]
                  ELSE IF p2 THEN [total |-> 750, counts |-> RemoveOneEach(counts, 2..6)]
                  ELSE [total |-> 0, counts |-> counts]
        k      == NumbaKinds(6, st.counts, st.total)
    IN  IF full /\ n = 6
        THEN 1500
        ELSE k.total + k.counts[1] * 100 + k.counts[5] * 50

(***************************************************************************)
(* turn_simulator.py: DiceSimulator._identify_all_keep_options             *)
(***************************************************************************)

\* itertools.combinations(lo..n, k) as index tuples, in itertools' order.
RECURSIVE CombosFrom(_, _, _)
CombosFrom(lo, n, k) ==
    IF k = 0 THEN << <<>> >>
    ELSE IF lo > n - k + 1 THEN << >>
    ELSE LET withLo == CombosFrom(lo + 1, n, k - 1)
         IN  [j \in 1..Len(withLo) |-> <<lo>> \o withLo[j]]
             \o CombosFrom(lo + 1, n, k)

\* The enumeration order of the two nested loops: keep_size = 1..n, then
\* itertools.combinations(range(n), keep_size).
RECURSIVE SubsetsBySize(_, _)
SubsetsBySize(n, keep_size) ==
    IF keep_size > n THEN << >>
    ELSE CombosFrom(1, n, keep_size) \o SubsetsBySize(n, keep_size + 1)

IndexTuples == [n \in 0..MaxRollLen |-> SubsetsBySize(n, 1)]

\* keep_values = [roll[i] for i in indices]
KeepValues(r, indices) == [k \in 1..Len(indices) |-> r[indices[k]]]

\* values[:j] + values[j+1:]  /  np.delete(arr, j)
DeleteAt(values, j) ==
    [k \in 1..(Len(values) - 1) |-> IF k < j THEN values[k] ELSE values[k + 1]]

\* _score_dice_roll_jit when numba and numpy import, else score_dice_roll.
RawScore(values, jit) ==
    IF jit THEN score_dice_roll_numba(values) ELSE score_dice_roll(values)

\* _is_pure_scoring_set with "tmp_score > full_score" for ">=".
is_pure_scoring_set_Strict(values, jit) ==
    LET full_score == RawScore(values, jit)
    IN  /\ full_score > 0
        /\ \A j \in 1..Len(values) :
              \/ jit /\ Len(values) = 1
              \/ ~(RawScore(DeleteAt(values, j), jit) > full_score)

\* _is_pure_scoring_set without the removal test.
is_pure_scoring_set_AnyPositive(values, jit) == RawScore(values, jit) > 0

\* _is_pure_scoring_set(values): every die in values contributes.
is_pure_scoring_set(values, jit) ==
    LET full_score == RawScore(values, jit)
    IN  /\ full_score > 0
        /\ \A j \in 1..Len(values) :
              \/ jit /\ Len(values) = 1
              \/ ~(RawScore(DeleteAt(values, j), jit) >= full_score)

\* Python's list.sort is stable, also with reverse=True: elements with equal
\* keys keep their order.
\* opt put after the elements of sorted (in descending key order) whose key
\* is not smaller.
InsertDesc(sorted, opt, key) ==
    LET p == Cardinality({i \in DOMAIN sorted : sorted[i][key] >= opt[key]})
    IN  [i \in 1..(Len(sorted) + 1) |->
            IF i <= p THEN sorted[i]
            ELSE IF i = p + 1 THEN opt
            ELSE sorted[i - 1]]

\* The list left in the order it was built in.
SortDesc_Unsorted(opts, n, key) == SubSeq(opts, 1, n)

\* list.sort(key=..., reverse=True) on the first n elements of opts.
RECURSIVE SortDesc(_, _, _)
SortDesc(opts, n, key) ==
    IF n = 0 THEN << >>
    ELSE InsertDesc(SortDesc(opts, n - 1, key), opts[n], key)

\* The options in enumeration order, before the sort.
UnsortedKeepOptions(r, jit) ==
    LET tuples == IndexTuples[Len(r)]
        valid(t) == LET kv == KeepValues(r, t)
                    IN  RawScore(kv, jit) > 0 /\ is_pure_scoring_set(kv, jit)
        kept == SelectSeq(tuples, valid)
    IN  [k \in 1..Len(kept) |->
            [indices |-> Range(kept[k]),
             score   |-> RawScore(KeepValues(r, kept[k]), jit)]]

\* _identify_all_keep_options(roll): (indices_to_keep, score) tuples.
identify_all_keep_options(r, jit) ==
    LET u == UnsortedKeepOptions(r, jit)
    IN  SortDesc(u, Len(u), "score")

(***************************************************************************)
(* turn_simulator.py: DiceSimulator._find_optimal_choices                  *)
(***************************************************************************)

\* 10 * expected_value of keeping `kept` dice of a roll of roll_len dice for
\* `score`: the score, plus remaining * 25 * (1 - max(0.1, 0.1 * remaining))
\* when dice remain, plus 150 when the keep clears the roll and
\* dice_left > len(roll).
ExpectedValue10(score, kept, roll_len, dice_left) ==
    LET remaining_dice == roll_len - kept
        future_value   == remaining_dice * 25
        bust_risk10    == Max(1, remaining_dice)
    IN  IF remaining_dice > 0
        THEN score * 10 + future_value * (10 - bust_risk10)
        ELSE IF remaining_dice = 0 /\ dice_left > roll_len
        THEN score * 10 + 1500
        ELSE score * 10

\* The enhanced_options list with 'Bank now' as its first element.
EnhancedOptions_BankFirst(all_options, roll_len, dice_left, current_total) ==
    <<[indices |-> {}, score |-> 0, ev10 |-> 10 * current_total,
       desc |-> "Bank now"]>>
    \o [k \in 1..Len(all_options) |->
           [indices |-> all_options[k].indices,
            score   |-> all_options[k].score,
            ev10    |-> ExpectedValue10(all_options[k].score,
                            Cardinality(all_options[k].indices),
                            roll_len, dice_left),
            desc    |-> "keep"]]

\* The enhanced_options list of _find_optimal_choices with its last
\* element, 'Bank now', whose value is the current total; before the sort.
EnhancedOptions(all_options, roll_len, dice_left, current_total) ==
    Append([k \in 1..Len(all_options) |->
               [indices |-> all_options[k].indices,
                score   |-> all_options[k].score,
                ev10    |-> ExpectedValue10(all_options[k].score,
                                Cardinality(all_options[k].indices),
                                roll_len, dice_left),
                desc    |-> "keep"]],
           [indices |-> {}, score |-> 0, ev10 |-> 10 * current_total,
            desc |-> "Bank now"])

\* _find_optimal_choices without the early return on a roll with no option.
find_optimal_choices_NoBustReturn(all_options, roll_len, dice_left, current_total) ==
    SortDesc(EnhancedOptions(all_options, roll_len, dice_left, current_total),
             Len(all_options) + 1, "ev10")

\* _find_optimal_choices(roll, dice_left, current_total), given
\* all_options = _identify_all_keep_options(roll): empty when the roll has
\* no keep option, else the enhanced options sorted by expected value
\* (descending).
find_optimal_choices(all_options, roll_len, dice_left, current_total) ==
    IF all_options = << >>
    THEN << >>
    ELSE SortDesc(EnhancedOptions(all_options, roll_len, dice_left, current_total),
                  Len(all_options) + 1, "ev10")

(***************************************************************************)
(* game_simulator.py: the policy settings                                  *)
(***************************************************************************)

\* AI_PROFILES["priest"]
Priest == [bank_min_value |-> 500, bank_min_applies_first_n_rolls |-> 2,
           bank_if_dice_below |-> 0, no_bank_on_clear |-> TRUE,
           reset_count_on_refresh |-> TRUE]

\* No player_settings: the simulator gets a win_target and nothing else.
NoSettings == [bank_min_value |-> 0, bank_min_applies_first_n_rolls |-> 0,
               bank_if_dice_below |-> 0, no_bank_on_clear |-> FALSE,
               reset_count_on_refresh |-> FALSE]

\* GameSimulator(win_target=...): the default, and a lower target that the
\* turns of a small dice set can reach.
WinTargets == {500, 8000}

\* GameSimulator._configure_sim(sim, profile): the attributes it sets on the
\* simulator.  None is 0 here: a missing or zero entry gives None.
configure_sim(profile, wt) ==
    [bank_min_value |-> IF profile.bank_min_value # 0
                        THEN profile.bank_min_value ELSE 0,
     bank_min_applies_first_n_rolls |->
                        IF profile.bank_min_applies_first_n_rolls # 0
                        THEN profile.bank_min_applies_first_n_rolls ELSE 0,
     no_bank_on_clear |-> profile.no_bank_on_clear,
     reset_count_on_refresh |-> profile.reset_count_on_refresh,
     bank_if_dice_below |-> profile.bank_if_dice_below,
     win_target |-> wt]

(***************************************************************************)
(* State                                                                   *)
(***************************************************************************)
\* Largest dice set the turn engine is run with.
MaxDice == 3

\* _identify_all_keep_options on the rolls the turn engine can make: the same
\* function, tabulated once.
KeepOptionsOf ==
    [jit \in BOOLEAN |->
        [r \in UNION {RollsOfLen(n) : n \in 1..MaxDice} |->
            identify_all_keep_options(r, jit)]]

\* max_turns of _simulate_turn_with_optimal_choices
max_turns == 50
\* "Cap at the game win threshold (8000)"
WinCap == 8000

\* The while condition with a cap of three rolls.
LoopContinues_ShortCap(dice_left, rolls_made) ==
    dice_left # << >> /\ rolls_made < 3

\* "while current_dice and roll_count < max_turns"
LoopContinues(dice_left, rolls_made) ==
    dice_left # << >> /\ rolls_made < max_turns

VARIABLES
    roll,        \* the roll handed to the scorers and the enumerator
    py_score,    \* score_dice_roll(roll)[0]
    nb_score,    \* _score_dice_roll_numba(roll)
    options,     \* _identify_all_keep_options(roll)
    scored,      \* "no", or which function has run on roll
    numba,       \* _NUMBA_AVAILABLE: numba and numpy could be imported
    game,        \* GameSimulator: win_target, player_settings
    sim,         \* the policy attributes set on the DiceSimulator
    dice_n,      \* len(dice): the size of the dice set of the turn
    current_dice,\* the dice still in the pool (positions in the dice set)
    total_score, \* the turn's accumulated total
    roll_count,  \* rolls made in the turn
    pc,          \* "idle", "rolling", "done"
    ret,         \* the turn's return value: score, did_bust
    last_choice, \* what the last roll's log entry records
    no_keeps,    \* the last roll had no keep option
    clear_top,   \* the best-ranked keep of the last roll uses the whole pool
    current_roll, \* the last roll of the turn
    rolled_dice, \* the pool that roll was made with
    turn_options \* options: what _find_optimal_choices gave for that roll

VARIABLES
    num_simulations, \* simulate_dice_combination: the number of trials asked for
    progress_fn,     \* a progress callback was passed
    sim_i,           \* trials run so far (the loop index i)
    acc,             \* total_score, bust_count, turn_lengths,
                     \* score_distribution, max_score
    trials,          \* the outcomes of the trials run, in execution order
    cb_raised,       \* a call of the progress callback has raised
    sim_result       \* the returned statistics, NoResult before the return

VARIABLES
    n_games,         \* simulate_games: the number of games asked for
    alternate_first, \* GameSimulator.alternate_first
    games_progress_fn, \* a progress callback was passed to simulate_games
    g_pc,            \* "idle", "loop", "playing", "returned"
    g_i,             \* games finished (the loop index i)
    first,           \* play_game: the side that moves first
    collect_log,     \* play_game: collect_log
    player_total,    \* play_game: the sides' cumulative totals
    ai_total,
    turns,           \* play_game: turns played
    current,         \* play_game: the side to move
    game_log,        \* play_game: the log entries (collected when asked)
    tally,           \* simulate_games: player_wins, ai_wins, total_turns,
                     \* margins, game_lengths
    example_win,     \* simulate_games: << >> for None, or <<GameResult>>
    example_loss,
    games_out,       \* the dict simulate_games returns
    full_log,        \* every turn of the game being played
    played,          \* every finished game with its full log, in order
    games_cb_raised  \* a call of the progress callback has raised

VARIABLES
    available_dice,   \* find_optimal_dice_combination: the dice, by name
    num_dice,         \* the size of the dice set asked for
    sims_asked,       \* num_simulations as passed to the search
    exhaustive,       \* exhaustive mode
    max_combos,       \* the cap on the candidate list (0: none)
    progress_callback,\* a progress callback was passed
    status_callback,  \* a status callback was passed
    cpu_count,        \* os.cpu_count()
    s_pc,             \* "idle", "build", "prime", "evaluate", "rank",
                      \* "returned", "raised"
    exc,              \* the exception the search raised, "none" if none
    combinations_to_test, \* the candidates: dice and name
    submitted,        \* payloads handed to the executor
    in_flight,        \* payload indices submitted and not yet completed
    batch,            \* the futures of the running as_completed call
    completed,        \* evaluations completed
    results,          \* the usable results, in completion order
    search_out,       \* the dict the search returns
    skipped,          \* the candidates whose evaluation failed
    worker_env,       \* what the worker processes may do: how an evaluation
                      \* may end (outs) and the score of the turns it
                      \* simulates after the busts (scores)
    submit_log,       \* the payloads in the order executor.submit took them
    completion_order  \* the payloads in the order as_completed gave them

scoreVars == <<roll, py_score, nb_score, options, scored>>
searchVars == <<available_dice, num_dice, sims_asked, exhaustive, max_combos,
                progress_callback, status_callback, cpu_count, s_pc, exc,
                combinations_to_test, submitted, in_flight, batch, completed,
                results, search_out, skipped, worker_env, submit_log,
                completion_order>>
playVars  == <<first, collect_log, player_total, ai_total, turns, current,
               game_log, full_log>>
gamesVars == <<n_games, alternate_first, games_progress_fn, g_pc, g_i, tally,
               example_win, example_loss, games_out, played, games_cb_raised>>
aggVars   == <<num_simulations, progress_fn, sim_i, acc, trials, cb_raised,
               sim_result>>
otherVars == <<aggVars, playVars, gamesVars, searchVars>>
turnVars  == <<game, sim, dice_n, current_dice, total_score, roll_count, pc,
               ret, last_choice, no_keeps, clear_top, current_roll,
               rolled_dice, turn_options>>
vars == <<scoreVars, numba, turnVars, otherVars>>

NoRet == [score |-> 0, did_bust |-> FALSE]

TurnIdle ==
    /\ sim = configure_sim(NoSettings, 0)
    /\ dice_n = 0
    /\ current_dice = << >>
    /\ total_score = 0
    /\ roll_count = 0
    /\ pc = "idle"
    /\ ret = NoRet
    /\ last_choice = "none"
    /\ no_keeps = FALSE
    /\ clear_top = FALSE
    /\ current_roll = << >>
    /\ rolled_dice = << >>
    /\ turn_options = << >>

\* The accumulators of simulate_dice_combination before its loop.
NoAcc == [total_score |-> 0, bust_count |-> 0, turn_lengths |-> << >>,
          score_distribution |-> << >>, max_score |-> 0]

NoResult == [returned |-> FALSE]

AggIdle ==
    /\ num_simulations = 0
    /\ progress_fn = FALSE
    /\ sim_i = 0
    /\ acc = NoAcc
    /\ trials = << >>
    /\ cb_raised = FALSE
    /\ sim_result = NoResult

NoTally == [player_wins |-> 0, ai_wins |-> 0, total_turns |-> 0,
            margins |-> << >>, game_lengths |-> << >>]

PlayIdle ==
    /\ first = "player"
    /\ collect_log = FALSE
    /\ player_total = 0
    /\ ai_total = 0
    /\ turns = 0
    /\ current = "player"
    /\ game_log = << >>
    /\ full_log = << >>

GamesIdle ==
    /\ n_games = 0
    /\ alternate_first = TRUE
    /\ games_progress_fn = FALSE
    /\ g_pc = "idle"
    /\ g_i = 0
    /\ tally = NoTally
    /\ example_win = << >>
    /\ example_loss = << >>
    /\ games_out = NoResult
    /\ played = << >>
    /\ games_cb_raised = FALSE

SearchIdle ==
    /\ available_dice = << >>
    /\ num_dice = 0
    /\ sims_asked = 0
    /\ exhaustive = FALSE
    /\ max_combos = 0
    /\ progress_callback = FALSE
    /\ status_callback = FALSE
    /\ cpu_count = 0
    /\ s_pc = "idle"
    /\ exc = "none"
    /\ combinations_to_test = << >>
    /\ submitted = 0
    /\ in_flight = {}
    /\ batch = {}
    /\ completed = 0
    /\ results = << >>
    /\ search_out = NoResult
    /\ skipped = {}
    /\ worker_env = [outs |-> {}, scores |-> {}]
    /\ submit_log = << >>
    /\ completion_order = << >>

OtherIdle == AggIdle /\ PlayIdle /\ GamesIdle /\ SearchIdle

ScoreIdle ==
    /\ roll = << >>
    /\ py_score = 0
    /\ nb_score = 0
    /\ options = << >>
    /\ scored = "no"

(***************************************************************************)
(* The scorers and the enumerator on every roll of 1..MaxRollLen dice      *)
(***************************************************************************)
InitRoll ==
    /\ roll \in AllRolls
    /\ py_score = 0
    /\ nb_score = 0
    /\ options = << >>
    /\ scored = "no"
    /\ numba \in BOOLEAN
    /\ game = [win_target |-> 0, player_settings |-> NoSettings]
    /\ TurnIdle
    /\ OtherIdle

\* score_dice_roll(roll) and _score_dice_roll_numba(roll)
ScoreRoll ==
    /\ scored = "no"
    /\ py_score' = score_dice_roll(roll)
    /\ nb_score' = score_dice_roll_numba(roll)
    /\ scored' = "scorers"
    /\ UNCHANGED <<roll, options, numba, turnVars, otherVars>>

NextScore == ScoreRoll

SpecScore == InitRoll /\ [][NextScore]_vars

\* _identify_all_keep_options(roll)
IdentifyKeepOptions ==
    /\ scored = "no"
    /\ options' = identify_all_keep_options(roll, numba)
    /\ py_score' = score_dice_roll(roll)
    /\ scored' = "enumerator"
    /\ UNCHANGED <<roll, nb_score, numba, turnVars, otherVars>>

NextKeep == IdentifyKeepOptions

SpecKeep == InitRoll /\ [][NextKeep]_vars

(***************************************************************************)
(* The turn engine: _play_single_turn and                                  *)
(* _simulate_turn_with_optimal_choices                                     *)
(***************************************************************************)
Init ==
    /\ ScoreIdle
    /\ numba \in BOOLEAN
    /\ game \in [win_target : WinTargets, player_settings : {NoSettings}]
    /\ TurnIdle
    /\ OtherIdle

\* _play_single_turn up to the first roll: a new DiceSimulator on the side's
\* dice, configured from the AI profile, the player settings, or with the
\* win target alone.
StartTurn ==
    /\ pc = "idle"
    /\ \E n \in 1..MaxDice, side \in {"player", "ai"} :
          /\ dice_n' = n
          /\ current_dice' = [i \in 1..n |-> i]
          /\ sim' = IF side = "ai"
                    THEN configure_sim(Priest, game.win_target)
                    ELSE configure_sim(game.player_settings, game.win_target)
    /\ total_score' = 0
    /\ roll_count' = 0
    /\ pc' = "rolling"
    /\ UNCHANGED <<scoreVars, numba, game, ret, last_choice, no_keeps,
                   clear_top, current_roll, rolled_dice, turn_options,
                   otherVars>>

\* The kept score taking the place of the total.
add_score_Replace(total, keep_score) == keep_score

\* total_score += keep_score
add_score(total, keep_score) == total + keep_score

\* The pool is the full set after every keep.
refresh_pool_Always(left, n) == [i \in 1..n |-> i]

\* "If we've used all dice, start again with a fresh set": the dice left
\* after the keep, or list(dice) when none is left.
refresh_pool(left, n) == IF left = << >> THEN [i \in 1..n |-> i] ELSE left

\* One iteration of the while loop of _simulate_turn_with_optimal_choices:
\* roll the pool, rank the options, then bust, bank or keep.
TurnStep ==
    /\ pc = "rolling"
    /\ \E rolled \in RollsOfLen(Len(current_dice)) :
       \E all_options \in {KeepOptionsOf[numba][rolled]} :
       \E opts \in {find_optimal_choices(all_options, Len(rolled),
                                         dice_n, total_score)} :
        LET rc      == roll_count + 1
            best    == opts[1]
            kept    == best.indices
            newtot  == add_score(total_score, best.score)
            left    == SelectSeq(current_dice,
                          LAMBDA d : \E i \in 1..Len(current_dice) :
                                        current_dice[i] = d /\ i \notin kept)
        IN  /\ roll_count' = rc
            /\ no_keeps' = (Len(all_options) = 0)
            /\ clear_top' =
                  \E k \in DOMAIN opts :
                      /\ opts[k].desc = "keep"
                      /\ \A j \in 1..(k - 1) : opts[j].desc # "keep"
                      /\ Cardinality(opts[k].indices) = Len(rolled)
            /\ current_roll' = rolled
            /\ rolled_dice' = current_dice
            /\ turn_options' = opts
            /\ IF opts = << >>
               THEN \* "BUST!": return 0, True
                    /\ ret' = [score |-> 0, did_bust |-> TRUE]
                    /\ last_choice' = "bust"
                    /\ pc' = "done"
                    /\ UNCHANGED <<total_score, current_dice>>
               ELSE IF Cardinality(kept) = 0 /\ best.desc = "Bank now"
               THEN \* "BANK NOW": return total_score, False
                    /\ ret' = [score |-> total_score, did_bust |-> FALSE]
                    /\ last_choice' = "bank"
                    /\ pc' = "done"
                    /\ UNCHANGED <<total_score, current_dice>>
               ELSE IF newtot >= WinCap
               THEN \* "Reached 8000 points": break, return total_score, False
                    /\ total_score' = WinCap
                    /\ ret' = [score |-> WinCap, did_bust |-> FALSE]
                    /\ last_choice' = "cap"
                    /\ pc' = "done"
                    /\ UNCHANGED current_dice
               ELSE /\ total_score' = newtot
                    /\ current_dice' = refresh_pool(left, dice_n)
                    /\ last_choice' = IF left = << >> THEN "refresh" ELSE "keep"
                    /\ IF LoopContinues(current_dice', rc)
                       THEN pc' = "rolling" /\ UNCHANGED ret
                       ELSE /\ pc' = "done"
                            /\ ret' = [score |-> newtot, did_bust |-> FALSE]
    /\ UNCHANGED <<scoreVars, numba, game, sim, dice_n, otherVars>>

Next == StartTurn \/ TurnStep

Spec == Init /\ [][Next]_vars

(***************************************************************************)
(* turn_simulator.py: DiceSimulator.simulate_dice_combination              *)
(*                                                                         *)
(* The statistics are floats in the source; they are kept as fractions     *)
(* [num, den] of integers, not reduced.  A percentage count / n * 100 is   *)
(* kept as pct_n = count * 100, the percentage times n.                    *)
(***************************************************************************)
\* Most trials of one simulate_dice_combination call.
MaxTrials == 4

\* What _simulate_turn_with_optimal_choices can return for a turn: a bust
\* (score 0), or a banked total, with the number of rolls made.
TurnOutcomes ==
    {[score |-> 0,   did_bust |-> TRUE,  num_rolls |-> 1],
     [score |-> 50,  did_bust |-> FALSE, num_rolls |-> 2],
     [score |-> 100, did_bust |-> FALSE, num_rolls |-> 2],
     [score |-> 300, did_bust |-> FALSE, num_rolls |-> 3]}

RECURSIVE SumSeq(_)
SumSeq(q) == IF q = << >> THEN 0 ELSE q[1] + SumSeq(Tail(q))

\* score_distribution[score] += 1 on a defaultdict(int): a new key goes
\* last, a known key keeps its place.
DistAdd(dist, score) ==
    IF \E k \in DOMAIN dist : dist[k].score = score
    THEN [k \in DOMAIN dist |->
            IF dist[k].score = score
            THEN [dist[k] EXCEPT !.count = @ + 1]
            ELSE dist[k]]
    ELSE Append(dist, [score |-> score, count |-> 1])

\* "Update statistics" for one trial.
UpdateStatistics(a, outcome) ==
    [total_score        |-> a.total_score + outcome.score,
     bust_count         |-> IF outcome.did_bust THEN a.bust_count + 1
                            ELSE a.bust_count,
     turn_lengths       |-> Append(a.turn_lengths, outcome.num_rolls),
     score_distribution |-> DistAdd(a.score_distribution, outcome.score),
     max_score          |-> IF outcome.score > a.max_score THEN outcome.score
                            ELSE a.max_score]

\* a * (1 - b) on fractions
TimesOneMinus(a, b) == [num |-> a.num * (b.den - b.num), den |-> a.den * b.den]

\* sorted([(score, count / n * 100) ...], key=percentage, reverse=True)[:5]
common_scores_of(dist) ==
    LET pairs  == [k \in DOMAIN dist |->
                     [score |-> dist[k].score, pct_n |-> dist[k].count * 100]]
        sorted == SortDesc(pairs, Len(pairs), "pct_n")
    IN  SubSeq(sorted, 1, IF Len(sorted) < 5 THEN Len(sorted) ELSE 5)

\* Statistics with expected_value = avg_score.
Statistics_EvIsAvgScore(a, n) ==
    LET avg_score == [num |-> a.total_score, den |-> Max(1, n)]
        bust_rate == [num |-> a.bust_count, den |-> Max(1, n)]
    IN  [returned       |-> TRUE,
         avg_score      |-> avg_score,
         bust_rate      |-> bust_rate,
         avg_rolls      |-> [num |-> SumSeq(a.turn_lengths),
                             den |-> Max(1, Len(a.turn_lengths))],
         expected_value |-> [num |-> avg_score.num * bust_rate.den,
                             den |-> avg_score.den * bust_rate.den],
         common_scores  |-> common_scores_of(a.score_distribution),
         max_score      |-> a.max_score]

\* "Calculate statistics" and the returned dict.
Statistics(a, n) ==
    LET avg_score == [num |-> a.total_score, den |-> Max(1, n)]
        bust_rate == [num |-> a.bust_count, den |-> Max(1, n)]
    IN  [returned       |-> TRUE,
         avg_score      |-> avg_score,
         bust_rate      |-> bust_rate,
         avg_rolls      |-> [num |-> SumSeq(a.turn_lengths),
                             den |-> Max(1, Len(a.turn_lengths))],
         expected_value |-> TimesOneMinus(avg_score, bust_rate),
         common_scores  |-> common_scores_of(a.score_distribution),
         max_score      |-> a.max_score]

InitSim ==
    /\ ScoreIdle
    /\ numba = FALSE
    /\ game = [win_target |-> 0, player_settings |-> NoSettings]
    /\ TurnIdle
    /\ num_simulations \in 1..MaxTrials
    /\ progress_fn \in BOOLEAN
    /\ sim_i = 0
    /\ acc = NoAcc
    /\ trials = << >>
    /\ cb_raised = FALSE
    /\ sim_result = NoResult
    /\ PlayIdle
    /\ GamesIdle
    /\ SearchIdle

\* One iteration of "for i in range(num_simulations)": the progress callback
\* (an exception it raises is passed over), one turn, the statistics update.
SimulateTrial ==
    /\ ~sim_result.returned
    /\ sim_i < num_simulations
    /\ \E callback \in IF progress_fn
                        /\ (\/ sim_i % Max(1, num_simulations \div 50) = 0
                            \/ sim_i = num_simulations - 1)
                       THEN {"returns", "raises"} ELSE {"not called"} :
          cb_raised' = (cb_raised \/ callback = "raises")
    /\ \E outcome \in TurnOutcomes :
          /\ acc' = UpdateStatistics(acc, outcome)
          /\ trials' = Append(trials, outcome)
    /\ sim_i' = sim_i + 1
    /\ UNCHANGED <<scoreVars, numba, turnVars, num_simulations, progress_fn,
                   sim_result, playVars, gamesVars, searchVars>>

\* After the loop: the statistics are computed and returned.
SimulateReturn ==
    /\ ~sim_result.returned
    /\ sim_i = num_simulations
    /\ sim_result' = Statistics(acc, num_simulations)
    /\ UNCHANGED <<scoreVars, numba, turnVars, num_simulations, progress_fn,
                   sim_i, acc, trials, cb_raised, playVars, gamesVars,
                   searchVars>>

NextSim == SimulateTrial \/ SimulateReturn

SpecSim == InitSim /\ [][NextSim]_vars

(***************************************************************************)
(* game_simulator.py: GameSimulator.play_game and simulate_games           *)
(*                                                                         *)
(* A turn is _play_single_turn's result: what it gained, whether it bust   *)
(* and its rolls.  Rates and averages are fractions [num, den].            *)
(***************************************************************************)
\* Most games of one simulate_games call, and most turns of a game that are
\* followed.
MaxGames == 2
MaxGameTurns == 3

\* Results of _simulate_turn_with_optimal_choices in a game: a bust, a
\* banked 300, and a turn that ran to the 8000 cap.
GameTurnOutcomes ==
    {[score |-> 0,    did_bust |-> TRUE,  num_rolls |-> 1],
     [score |-> 300,  did_bust |-> FALSE, num_rolls |-> 2],
     [score |-> 8000, did_bust |-> FALSE, num_rolls |-> 3]}

Min(a, b) == IF a <= b THEN a ELSE b

\* The side that played moves again.
Other_Same(side) == side

Other(side) == IF side = "player" THEN "ai" ELSE "player"

\* The while condition of play_game with "or" for "and".
GameContinues_UntilBoth(p_total, a_total, target) ==
    p_total < target \/ a_total < target

\* "while player_total < self.win_target and ai_total < self.win_target"
GameContinues(p_total, a_total, target) ==
    p_total < target /\ a_total < target

\* The GameResult play_game returns.
GameResultOf(p_total, a_total, target, n_turns, first_player, log) ==
    [player_score |-> Min(p_total, target),
     ai_score     |-> Min(a_total, target),
     turns        |-> n_turns,
     first_player |-> first_player,
     winner       |-> IF p_total >= target THEN "player" ELSE "ai",
     game_log     |-> log]

\* The example replaced by every later game that has a log.
TakeExample_Latest(example, result) ==
    IF result.game_log # << >> THEN <<result>> ELSE example

\* "if example_win is None and result.game_log: example_win = result"
TakeExample(example, result) ==
    IF example = << >> /\ result.game_log # << >> THEN <<result>> ELSE example

\* game_lengths[result.turns] += 1
LengthAdd(lengths, n_turns) ==
    IF \E k \in DOMAIN lengths : lengths[k].turns = n_turns
    THEN [k \in DOMAIN lengths |->
            IF lengths[k].turns = n_turns
            THEN [lengths[k] EXCEPT !.count = @ + 1]
            ELSE lengths[k]]
    ELSE Append(lengths, [turns |-> n_turns, count |-> 1])

\* {k: v / n_games * 100.0 for k, v in sorted(game_lengths.items())}
RECURSIVE length_distribution(_)
length_distribution(lengths) ==
    IF lengths = << >> THEN << >>
    ELSE LET k == CHOOSE i \in DOMAIN lengths :
                     \A j \in DOMAIN lengths : lengths[i].turns <= lengths[j].turns
             rest == [j \in 1..(Len(lengths) - 1) |->
                        IF j < k THEN lengths[j] ELSE lengths[j + 1]]
         IN  <<[turns |-> lengths[k].turns, pct_n |-> lengths[k].count * 100]>>
             \o length_distribution(rest)

\* _format_example: None without a result or a log, else the text built
\* from the result's fields and log entries (kept as those fields).
format_example(example) ==
    IF example = << >> THEN << >>
    ELSE IF example[1].game_log = << >> THEN << >>
    ELSE <<[first_player |-> example[1].first_player,
            winner       |-> example[1].winner,
            player_score |-> example[1].player_score,
            ai_score     |-> example[1].ai_score,
            turns        |-> example[1].turns,
            entries      |-> example[1].game_log]>>

InitGames ==
    /\ ScoreIdle
    /\ numba = FALSE
    /\ game \in [win_target : WinTargets, player_settings : {NoSettings}]
    /\ TurnIdle
    /\ AggIdle
    /\ PlayIdle
    /\ SearchIdle
    /\ n_games \in 0..MaxGames
    /\ alternate_first \in BOOLEAN
    /\ games_progress_fn \in BOOLEAN
    /\ g_pc = "idle"
    /\ g_i = 0
    /\ tally = NoTally
    /\ example_win = << >>
    /\ example_loss = << >>
    /\ games_out = NoResult
    /\ played = << >>
    /\ games_cb_raised = FALSE

\* simulate_games up to its loop: n_games = max(1, int(n_games)) and the
\* first progress call, whose exception is passed over.
StartGames ==
    /\ g_pc = "idle"
    /\ n_games' = Max(1, n_games)
    /\ \E callback \in IF games_progress_fn THEN {"returns", "raises"}
                       ELSE {"not called"} :
          games_cb_raised' = (callback = "raises")
    /\ g_pc' = "loop"
    /\ UNCHANGED <<scoreVars, numba, game, turnVars, aggVars, searchVars,
                   playVars,
                   alternate_first, games_progress_fn, g_i, tally,
                   example_win, example_loss, games_out, played>>

\* The start of one loop iteration: the first mover, need_example, and
\* play_game's locals.
StartGame ==
    /\ g_pc = "loop"
    /\ g_i < n_games
    /\ \E f \in IF alternate_first
                 THEN {IF g_i % 2 = 0 THEN "player" ELSE "ai"}
                 ELSE {"player", "ai"} :
          /\ first' = f
          /\ current' = f
    /\ collect_log' = (example_win = << >> \/ example_loss = << >>)
    /\ player_total' = 0
    /\ ai_total' = 0
    /\ turns' = 0
    /\ game_log' = << >>
    /\ full_log' = << >>
    /\ g_pc' = "playing"
    /\ UNCHANGED <<scoreVars, numba, game, turnVars, aggVars, searchVars,
                   n_games,
                   alternate_first, games_progress_fn, g_i, tally,
                   example_win, example_loss, games_out, played,
                   games_cb_raised>>

\* One iteration of play_game's while loop: the side to move plays a turn.
PlayTurn ==
    /\ g_pc = "playing"
    /\ GameContinues(player_total, ai_total, game.win_target)
    /\ turns < MaxGameTurns
    /\ \E res \in GameTurnOutcomes :
        LET gained == IF res.did_bust THEN 0 ELSE res.score
            p      == IF current = "player" THEN player_total + gained
                      ELSE player_total
            a      == IF current = "ai" THEN ai_total + gained ELSE ai_total
            entry  == [turn |-> turns + 1, actor |-> current,
                       gained |-> gained, did_bust |-> res.did_bust,
                       rolls |-> res.num_rolls,
                       totals |-> [player |-> p, ai |-> a]]
        IN  /\ player_total' = p
            /\ ai_total' = a
            /\ game_log' = IF collect_log THEN Append(game_log, entry)
                           ELSE game_log
            /\ full_log' = Append(full_log, entry)
    /\ turns' = turns + 1
    /\ current' = Other(current)
    /\ UNCHANGED <<scoreVars, numba, game, turnVars, aggVars, searchVars,
                   first,
                   collect_log, gamesVars>>

\* play_game returns and simulate_games counts the game: wins, turns,
\* margin, lengths, the examples, and the progress call.
EndGame ==
    /\ g_pc = "playing"
    /\ ~GameContinues(player_total, ai_total, game.win_target)
    /\ LET result == GameResultOf(player_total, ai_total, game.win_target,
                                  turns, first, game_log)
           won    == result.winner = "player"
       IN  /\ tally' =
                 [player_wins  |-> tally.player_wins + (IF won THEN 1 ELSE 0),
                  ai_wins      |-> tally.ai_wins + (IF won THEN 0 ELSE 1),
                  total_turns  |-> tally.total_turns + result.turns,
                  margins      |-> Append(tally.margins,
                                     result.player_score - result.ai_score),
                  game_lengths |-> LengthAdd(tally.game_lengths, result.turns)]
           /\ example_win' = IF won THEN TakeExample(example_win, result)
                             ELSE example_win
           /\ example_loss' = IF won THEN example_loss
                              ELSE TakeExample(example_loss, result)
           /\ played' = Append(played,
                           [result EXCEPT !.game_log = full_log])
    /\ \E callback \in IF games_progress_fn
                        /\ (\/ g_i % Max(1, n_games \div 50) = 0
                            \/ g_i = n_games - 1)
                       THEN {"returns", "raises"} ELSE {"not called"} :
          games_cb_raised' = (games_cb_raised \/ callback = "raises")
    /\ g_i' = g_i + 1
    /\ g_pc' = "loop"
    /\ UNCHANGED <<scoreVars, numba, game, turnVars, aggVars, searchVars,
                   playVars,
                   n_games, alternate_first, games_progress_fn, games_out>>

\* simulate_games after its loop: the rates and the examples are returned.
GamesReturn ==
    /\ g_pc = "loop"
    /\ g_i = n_games
    /\ games_out' =
          [returned            |-> TRUE,
           games               |-> n_games,
           win_target          |-> game.win_target,
           player_win_rate     |-> [num |-> tally.player_wins, den |-> n_games],
           ai_win_rate         |-> [num |-> tally.ai_wins, den |-> n_games],
           avg_turns           |-> [num |-> tally.total_turns, den |-> n_games],
           avg_margin          |-> [num |-> SumSeq(tally.margins),
                                    den |-> n_games],
           length_distribution |-> length_distribution(tally.game_lengths),
           example_player_win  |-> format_example(example_win),
           example_player_loss |-> format_example(example_loss)]
    /\ g_pc' = "returned"
    /\ UNCHANGED <<scoreVars, numba, game, turnVars, aggVars, searchVars,
                   playVars,
                   n_games, alternate_first, games_progress_fn, g_i, tally,
                   example_win, example_loss, played, games_cb_raised>>

NextGames == StartGames \/ StartGame \/ PlayTurn \/ EndGame \/ GamesReturn

SpecGames == InitGames /\ [][NextGames]_vars

(***************************************************************************)
(* turn_simulator.py: find_optimal_dice_combination and _eval_combo_worker *)
(*                                                                         *)
(* A die is its position in available_dice; its name is                    *)
(* available_dice[position].  A combination name "2x A, 1x B" is kept as   *)
(* the sequence of its parts, <<[count |-> 2, die_type |-> "A"], ...>>.    *)
(***************************************************************************)
\* Most dice in available_dice, and the largest dice set asked for.
MaxAvailable == 3
MaxPick == 2

DieTypes == {"Lucky Die", "Odd die"}

\* num_simulations of a search: workers run half of it, and at least 50.
SearchSims == {50}

\* os.cpu_count() of the machine.
CpuCounts == {2}

\* list(dice_by_name.keys()): the names in order of first occurrence.
RECURSIVE unique_dice_types(_)
unique_dice_types(dice) ==
    IF dice = << >> THEN << >>
    ELSE LET before == unique_dice_types(SubSeq(dice, 1, Len(dice) - 1))
             name   == dice[Len(dice)]
         IN  IF \E k \in DOMAIN before : before[k] = name
             THEN before ELSE Append(before, name)

\* dice_by_name[name]: the dice of that name, in list order.
dice_by_name(dice, name) ==
    SelectSeq([i \in 1..Len(dice) |-> i], LAMBDA i : dice[i] = name)

\* math.comb(n, k)
RECURSIVE comb(_, _)
comb(n, k) ==
    IF k = 0 THEN 1 ELSE IF n < k THEN 0
    ELSE comb(n - 1, k - 1) + comb(n - 1, k)

\* itertools.combinations_with_replacement(types[lo..], k), in its order.
RECURSIVE combinations_with_replacement(_, _, _)
combinations_with_replacement(types, lo, k) ==
    IF k = 0 THEN << << >> >>
    ELSE IF lo > Len(types) THEN << >>
    ELSE LET withLo == combinations_with_replacement(types, lo, k - 1)
         IN  [j \in 1..Len(withLo) |-> <<types[lo]>> \o withLo[j]]
             \o combinations_with_replacement(types, lo + 1, k)

\* Counter(names).items(): each name with its count, in order of first
\* occurrence.
counter_items(names) ==
    LET keys == unique_dice_types(names)
    IN  [k \in 1..Len(keys) |->
            [die_type |-> keys[k],
             count    |-> Cardinality({i \in DOMAIN names : names[i] = keys[k]})]]

RECURSIVE Flatten(_)
Flatten(qs) == IF qs = << >> THEN << >> ELSE qs[1] \o Flatten(Tail(qs))

\* The availability test with "available <= count" for "available < count".
combo_is_valid_Strict(dice, combo_types) ==
    \A k \in DOMAIN counter_items(combo_types) :
        LET part == counter_items(combo_types)[k]
        IN  ~(Len(dice_by_name(dice, part.die_type)) <= part.count)

\* "Check if we have enough of each type"
combo_is_valid(dice, combo_types) ==
    \A k \in DOMAIN counter_items(combo_types) :
        LET part == counter_items(combo_types)[k]
        IN  ~(Len(dice_by_name(dice, part.die_type)) < part.count)

\* The candidate of a valid combination: the first count dice of each of
\* its types, and its name.
candidate_of(dice, combo_types) ==
    LET parts == counter_items(combo_types)
    IN  [dice |-> Flatten([k \in 1..Len(parts) |->
                     SubSeq(dice_by_name(dice, parts[k].die_type), 1,
                            parts[k].count)]),
         name |-> parts]

\* The candidates of exhaustive mode, before the cap.
exhaustive_candidates(dice, n) ==
    LET combos == combinations_with_replacement(unique_dice_types(dice), 1, n)
        valid  == SelectSeq(combos, LAMBDA c : combo_is_valid(dice, c))
    IN  [k \in 1..Len(valid) |-> candidate_of(dice, valid[k])]

\* random.sample(candidates, k): k of them, each once, in any order.
samples_of(candidates, k) ==
    {[j \in 1..k |-> candidates[f[j]]] :
        f \in {g \in [1..k -> DOMAIN candidates] :
                 \A a, b \in 1..k : a # b => g[a] # g[b]}}

\* adjusted_sims of exhaustive mode
adjusted_sims(sims, types, n) ==
    LET total_combos == comb(Len(types) + n - 1, n)
    IN  Max(10, Min(sims,
                    10000 \div Max(1, total_combos \div 100)))

\* The payload of a candidate.
payload_of(combo, sims, dice) ==
    [name       |-> combo.name,
     dice_names |-> [k \in DOMAIN combo.dice |-> dice[combo.dice[k]]],
     sims       |-> Max(1, sims \div 2)]

\* The accumulators of simulate_dice_combination after the trials q.
\* The trials q[lo..hi] are taken in order, the first half before the
\* second.  The accumulators after the first half are compared with NoAcc
\* only so that they are computed before the second half is entered.
RECURSIVE run_from(_, _, _, _)
run_from(a, q, lo, hi) ==
    IF lo > hi THEN a
    ELSE IF lo = hi THEN UpdateStatistics(a, q[lo])
    ELSE LET mid  == (lo + hi) \div 2
             left == run_from(a, q, lo, mid)
         IN  IF left = NoAcc THEN run_from(NoAcc, q, mid + 1, hi)
             ELSE run_from(left, q, mid + 1, hi)

run_trials(q) == run_from(NoAcc, q, 1, Len(q))

\* The trials a worker may see: the first fifth busts, the others all have
\* the same outcome (a bust, 100 in two rolls, 300 in three rolls).
WorkerRuns(n, scores) ==
    {[k \in 1..n |-> IF k * 5 <= n
                     THEN [score |-> 0, did_bust |-> TRUE, num_rolls |-> 1]
                     ELSE o] :
        o \in {t \in TurnOutcomes : t.score \in scores}}

\* What simulate_dice_combination may return for n trials.
StatisticsFor(n, scores) ==
    {Statistics(run_trials(q), n) : q \in WorkerRuns(n, scores)}

RECURSIVE Gcd(_, _)
Gcd(a, b) == IF b = 0 THEN a ELSE Gcd(b, a % b)

\* The same number in lowest terms, which keeps the products small.
Reduce(f) ==
    LET g == Gcd(f.num, f.den)
    IN  [num |-> f.num \div g, den |-> f.den \div g]

\* rank_score as a fraction: 0.6 ev + 0.3 ev / avg_rolls
\* + 0.1 (1 - bust) ev.  avg_rolls is at least 1 (a turn has a roll), so
\* max(1e-9, avg_rolls) is avg_rolls.
rank_score_of(res) ==
    LET ev   == Reduce(res.expected_value)
        ar   == Reduce(res.avg_rolls)
        bust == Reduce(res.bust_rate)
    IN  Reduce([num |-> ev.num * (6 * ar.num * bust.den + 3 * ar.den * bust.den
                                  + (bust.den - bust.num) * ar.num),
                den |-> ev.den * 10 * ar.num * bust.den])

\* What _eval_combo_worker returns for a payload whose simulation gave
\* stats.
eval_combo_worker(payload, stats) ==
    [name             |-> payload.name,
     dice_combination |-> counter_items(payload.dice_names),
     avg_score        |-> stats.avg_score,
     bust_rate        |-> stats.bust_rate,
     avg_rolls        |-> stats.avg_rolls,
     expected_value   |-> stats.expected_value,
     common_scores    |-> stats.common_scores,
     max_score        |-> stats.max_score,
     rank_score       |-> rank_score_of(stats)]

\* a >= b on fractions with positive denominators
FracGE(a, b) == a.num * b.den >= b.num * a.den

\* res put last, whatever its rank_score.
InsertByRank_Last(sorted, res) == Append(sorted, res)

\* res put after the elements of sorted whose rank_score is not smaller.
InsertByRank(sorted, res) ==
    LET p == Cardinality({i \in DOMAIN sorted :
                             FracGE(sorted[i].rank_score, res.rank_score)})
    IN  [i \in 1..(Len(sorted) + 1) |->
            IF i <= p THEN sorted[i]
            ELSE IF i = p + 1 THEN res
            ELSE sorted[i - 1]]

\* The results left in completion order.
SortByRank_Unsorted(rs, n) == SubSeq(rs, 1, n)

\* results.sort(key=rank_score, reverse=True), a stable sort.
RECURSIVE SortByRank(_, _)
SortByRank(rs, n) ==
    IF n = 0 THEN << >>
    ELSE InsertByRank(SortByRank(rs, n - 1), rs[n])

\* max_in_flight = max(workers * 4, 8), workers = max(1, cpu_count - 1)
max_in_flight_of(cpus) == Max(Max(1, cpus - 1) * 4, 8)

\* How a call of a callback may end; a callback that is None is not called.
Calls(callback) == IF callback THEN {"returns", "raises"} ELSE {"returns"}

\* The dice names a search may be given: every list of one to MaxAvailable
\* names.
AvailableLists ==
    UNION {[1..n -> DieTypes] : n \in 1..MaxAvailable}

InitSearch ==
    /\ ScoreIdle
    /\ numba = FALSE
    /\ game = [win_target |-> 0, player_settings |-> NoSettings]
    /\ TurnIdle
    /\ AggIdle
    /\ PlayIdle
    /\ GamesIdle
    /\ available_dice \in AvailableLists
    /\ num_dice \in 1..MaxPick
    /\ sims_asked \in SearchSims
    /\ exhaustive \in BOOLEAN
    /\ max_combos \in {0, 1}
    /\ progress_callback \in BOOLEAN
    /\ status_callback \in BOOLEAN
    /\ cpu_count \in CpuCounts
    /\ s_pc = "start"
    /\ exc = "none"
    /\ combinations_to_test = << >>
    /\ submitted = 0
    /\ in_flight = {}
    /\ batch = {}
    /\ completed = 0
    /\ results = << >>
    /\ search_out = NoResult
    /\ skipped = {}
    /\ worker_env = [outs |-> {"ok", "error", "raised"}, scores |-> {0, 100, 300}]
    /\ submit_log = << >>
    /\ completion_order = << >>

SearchRest == <<scoreVars, numba, turnVars, aggVars, playVars, gamesVars>>
SearchInputs == <<available_dice, num_dice, exhaustive, max_combos,
                  progress_callback, status_callback, cpu_count, worker_env>>

\* The search is left by an exception.
Raise(e) ==
    /\ s_pc' = "raised"
    /\ exc' = e

\* Lines 781-785: progress_callback(5), then the choice between using all
\* the dice and building candidates.
SearchStart ==
    /\ s_pc = "start"
    /\ \E cb \in Calls(progress_callback) :
          IF cb = "raises" THEN Raise("callback")
          ELSE /\ s_pc' = IF Len(available_dice) <= num_dice
                          THEN "use_all" ELSE "build"
               /\ exc' = exc
    /\ UNCHANGED <<SearchRest, SearchInputs, sims_asked, combinations_to_test,
                   submitted, in_flight, batch, completed, results,
                   search_out, skipped,
                   submit_log, completion_order>>

\* Lines 786-804: no more dice than asked for; all of them are simulated
\* and returned.
UseAll ==
    /\ s_pc = "use_all"
    /\ \E stats \in StatisticsFor(sims_asked, worker_env.scores),
          cb \in Calls(progress_callback) :
          /\ results' = <<stats>>
          /\ IF cb = "raises"
             THEN Raise("callback") /\ search_out' = search_out
             ELSE /\ s_pc' = "done"
                  /\ exc' = exc
                  /\ search_out' =
                        [returned         |-> TRUE,
                         dice_combination |-> "All Available Dice",
                         dice_composition |-> counter_items(available_dice),
                         dice_objects     |-> [i \in 1..Len(available_dice) |-> i],
                         expected_score   |-> stats.expected_value,
                         bust_rate        |-> stats.bust_rate,
                         avg_rolls        |-> stats.avg_rolls,
                         common_scores    |-> stats.common_scores,
                         max_score        |-> stats.max_score]
    /\ UNCHANGED <<SearchRest, SearchInputs, sims_asked, combinations_to_test,
                   submitted, in_flight, batch, completed, skipped,
                   submit_log, completion_order>>

\* Lines 817-886: exhaustive mode.  The callbacks inside the generation
\* loop are called at i = 1000, 2000, ...; fewer combinations are generated
\* here.
BuildExhaustive ==
    /\ s_pc = "build"
    /\ exhaustive
    /\ sims_asked' = adjusted_sims(sims_asked, unique_dice_types(available_dice),
                                   num_dice)
    /\ \E cb \in Calls(progress_callback) :
          IF cb = "raises"
          THEN Raise("callback") /\ UNCHANGED combinations_to_test
          ELSE LET all == exhaustive_candidates(available_dice, num_dice)
               IN  /\ s_pc' = "prime"
                   /\ exc' = exc
                   /\ IF max_combos > 0 /\ Len(all) > max_combos
                      THEN combinations_to_test' \in samples_of(all, max_combos)
                      ELSE combinations_to_test' = all
    /\ UNCHANGED <<SearchRest, SearchInputs, submitted, in_flight, batch,
                   completed, results, search_out, skipped,
                   submit_log, completion_order>>

\* Lines 887-989: sampled mode.  Every candidate is named by
\* self._format_combo_name, and the function has no self: building the first
\* candidate raises NameError.  A type with num_dice dice gives that
\* candidate after progress_callback(10); otherwise the well-known dice
\* (all of DieTypes are) give it after progress_callback(15).
BuildSampled ==
    /\ s_pc = "build"
    /\ ~exhaustive
    /\ LET types == unique_dice_types(available_dice)
           homogeneous == \E k \in DOMAIN types :
                             Len(dice_by_name(available_dice, types[k])) >= num_dice
       IN  \E cb10 \in Calls(progress_callback),
              cb15 \in Calls(progress_callback) :
               IF cb10 = "raises" THEN Raise("callback")
               ELSE IF homogeneous THEN Raise("NameError")
               ELSE IF cb15 = "raises" THEN Raise("callback")
               ELSE Raise("NameError")
    /\ UNCHANGED <<SearchRest, SearchInputs, sims_asked, combinations_to_test,
                   submitted, in_flight, batch, completed, results,
                   search_out, skipped,
                   submit_log, completion_order>>

\* Every payload not yet submitted is submitted, whatever is in flight.
submit_more_NoLimit(n_submitted, flying, n_payloads, room) == n_payloads

\* Lines 1025-1028 and 1051-1054: payloads are submitted in order while
\* there is room in flight.
submit_more(n_submitted, flying, n_payloads, room) ==
    Min(n_payloads, n_submitted + Max(0, room - Cardinality(flying)))

\* Lines 1008-1028: the payloads are built and the pool is primed.
PrimePool ==
    /\ s_pc = "prime"
    /\ LET upto == submit_more(0, {}, Len(combinations_to_test),
                               max_in_flight_of(cpu_count))
       IN  /\ submitted' = upto
           /\ in_flight' = 1..upto
           /\ batch' = 1..upto
           /\ submit_log' = [k \in 1..upto |-> k]
    /\ s_pc' = "evaluate"
    /\ UNCHANGED <<SearchRest, SearchInputs, sims_asked, exc,
                   combinations_to_test, completed, results, search_out,
                   skipped, completion_order>>

\* A failed evaluation empties the results.
results_after_FaultDropsAll(rs, out, res) ==
    IF out = "ok" THEN Append(rs, res) ELSE << >>

\* Lines 1034-1042: the result of a future is appended unless the future
\* raised or the worker returned an error dict.
results_after(rs, out, res) ==
    IF out = "ok" THEN Append(rs, res) ELSE rs

\* Lines 1031-1054: one future of the as_completed batch completes.  The
\* worker returned its result ("ok"), returned an error dict ("error"), or
\* the future raised ("raised"); the last two are logged and passed over.
Complete ==
    /\ s_pc = "evaluate"
    /\ batch # {}
    /\ \E fut \in batch, out \in worker_env.outs :
        LET payload == payload_of(combinations_to_test[fut], sims_asked,
                                  available_dice)
            sims    == Max(50, Min(200, payload.sims))
            flying  == in_flight \ {fut}
            upto    == submit_more(submitted, flying, Len(combinations_to_test),
                                   max_in_flight_of(cpu_count))
        IN  \E stats \in StatisticsFor(sims, worker_env.scores),
               pcb \in Calls(progress_callback /\ Len(combinations_to_test) > 0),
               scb \in Calls(status_callback) :
              /\ completed' = completed + 1
              /\ completion_order' = Append(completion_order, fut)
              /\ results' = results_after(results, out,
                                          eval_combo_worker(payload, stats))
              /\ skipped' = IF out = "ok" THEN skipped ELSE skipped \cup {fut}
              /\ IF pcb = "raises" \/ scb = "raises"
                 THEN /\ Raise("callback")
                      /\ in_flight' = flying
                      /\ batch' = batch \ {fut}
                      /\ submitted' = submitted
                      /\ submit_log' = submit_log
                 ELSE /\ s_pc' = s_pc
                      /\ exc' = exc
                      /\ submitted' = upto
                      /\ submit_log' = submit_log
                            \o [k \in 1..(upto - submitted) |-> submitted + k]
                      /\ in_flight' = flying \cup ((submitted + 1)..upto)
                      /\ batch' = IF batch = {fut} THEN in_flight'
                                  ELSE batch \ {fut}
    /\ UNCHANGED <<SearchRest, SearchInputs, sims_asked, combinations_to_test,
                   search_out>>

\* next(c["dice"] for c in combinations_to_test if c["name"] == name)
dice_named(candidates, name) ==
    candidates[CHOOSE k \in DOMAIN candidates :
                  /\ candidates[k].name = name
                  /\ \A j \in 1..(k - 1) : candidates[j].name # name].dice

\* Lines 1056-1089: the results are sorted and the best one returned.
Rank ==
    /\ s_pc = "evaluate"
    /\ in_flight = {}
    /\ results' = SortByRank(results, Len(results))
    /\ \E cb \in Calls(progress_callback) :
          IF cb = "raises"
          THEN Raise("callback") /\ search_out' = search_out
          ELSE /\ s_pc' = "done"
               /\ exc' = exc
               /\ search_out' =
                     IF results' # << >>
                     THEN LET best == results'[1]
                          IN  [returned         |-> TRUE,
                               dice_combination |-> best.name,
                               dice_composition |-> best.dice_combination,
                               dice_objects     |-> dice_named(combinations_to_test,
                                                              best.name),
                               expected_score   |-> best.expected_value,
                               bust_rate        |-> best.bust_rate,
                               avg_rolls        |-> best.avg_rolls,
                               common_scores    |-> best.common_scores,
                               max_score        |-> best.max_score,
                               all_combinations |-> results']
                     ELSE [returned |-> TRUE,
                           error    |-> "No valid dice combinations found"]
    /\ UNCHANGED <<SearchRest, SearchInputs, sims_asked, combinations_to_test,
                   submitted, in_flight, batch, completed, skipped,
                   submit_log, completion_order>>

NextSearch ==
    \/ SearchStart
    \/ UseAll
    \/ BuildExhaustive
    \/ BuildSampled
    \/ PrimePool
    \/ Complete
    \/ Rank

SpecSearch == InitSearch /\ [][NextSearch]_vars

\* The dice set asked for in the searches that have more candidates than
\* the pool takes in flight.
PoolPick == 8

\* PoolPick dice of one type and PoolPick of another: every split of
\* PoolPick dice between the two types is a candidate, PoolPick + 1 in all.
PoolDice ==
    [i \in 1..(2 * PoolPick) |-> IF i <= PoolPick THEN "Lucky Die" ELSE "Odd die"]

\* Searches for PoolPick dice among PoolDice, or among the first PoolPick of
\* them, without callbacks and without cap; all the workers return a
\* result, with the same statistics.
InitPool ==
    /\ ScoreIdle
    /\ numba = FALSE
    /\ game = [win_target |-> 0, player_settings |-> NoSettings]
    /\ TurnIdle
    /\ AggIdle
    /\ PlayIdle
    /\ GamesIdle
    /\ available_dice \in {PoolDice, SubSeq(PoolDice, 1, PoolPick)}
    /\ num_dice = PoolPick
    /\ sims_asked \in SearchSims
    /\ exhaustive \in BOOLEAN
    /\ max_combos = 0
    /\ progress_callback = FALSE
    /\ status_callback = FALSE
    /\ cpu_count \in CpuCounts
    /\ s_pc = "start"
    /\ exc = "none"
    /\ combinations_to_test = << >>
    /\ submitted = 0
    /\ in_flight = {}
    /\ batch = {}
    /\ completed = 0
    /\ results = << >>
    /\ search_out = NoResult
    /\ skipped = {}
    /\ worker_env = [outs |-> {"ok"}, scores |-> {300}]
    /\ submit_log = << >>
    /\ completion_order = << >>

SpecPool == InitPool /\ [][NextSearch]_vars

(***************************************************************************)
(* Properties of the scorers (SpecScore)                                   *)
(***************************************************************************)
Count(r, v) == Cardinality({i \in DOMAIN r : r[i] = v})

\* The roll without its dice of value v.
Without(r, v) == SelectSeq(r, LAMBDA x : x # v)

HasStraight(r) == (1..5) \subseteq Range(r) \/ (2..6) \subseteq Range(r)

\* What one leftover die scores on its own.
SingleValue(v) == IF v = 1 THEN 100 ELSE IF v = 5 THEN 50 ELSE 0

\* C1: for every roll of 1 to 6 dice the numeric fast-path scorer returns
\* the same score as the descriptive scorer.
C1_ScorersAgree == scored = "scorers" => nb_score = py_score

\* C1 witness: a scored full straight, which the two scorers detect by
\* different tests.
C1_Witness == scored = "scorers" /\ Len(roll) = 6 /\ py_score = 1500 /\ nb_score = 1500

\* C3: in a roll without a straight, a group of count >= 3 dice of value v
\* adds (1000 if v = 1 else 100 v) * 2^(count-3) to the score of the other
\* dice, in both scorers; its dice score nothing else.
C3_KindGroupScore ==
    (scored = "scorers" /\ ~HasStraight(roll)) =>
        \A v \in Faces :
            Count(roll, v) >= 3 =>
                LET group == (IF v = 1 THEN 1000 ELSE v * 100) * Pow2(Count(roll, v) - 3)
                IN  /\ py_score = score_dice_roll(Without(roll, v)) + group
                    /\ nb_score = score_dice_roll_numba(Without(roll, v)) + group

\* C3 witness: four 1s beside a 5 and a 2 score 2000 + 50.
C3_Witness ==
    /\ scored = "scorers"
    /\ roll = <<1, 5, 1, 1, 2, 1>>
    /\ py_score = 2050

\* C4: a roll of 5 or 6 dice with each of 1..5 and no 6 scores 500 plus the
\* single value of its leftover die; a roll with each of 2..6 and no 1
\* scores 750, plus 50 when its leftover die is a 5; the straight takes one
\* die of each of its values out of remaining_dice.
C4_PartialStraights ==
    scored = "scorers" =>
        LET extra == IF Len(roll) = 6
                     THEN SingleValue(CHOOSE v \in Faces : Count(roll, v) = 2)
                     ELSE 0
            left(S) == [v \in Faces |->
                          IF v \in S THEN Count(roll, v) - 1 ELSE Count(roll, v)]
        IN  /\ ((1..5) \subseteq Range(roll) /\ 6 \notin Range(roll)) =>
                  /\ py_score = 500 + extra
                  /\ PyCombos(roll).remaining = left(1..5)
            /\ ((2..6) \subseteq Range(roll) /\ 1 \notin Range(roll)) =>
                  /\ py_score = 750 + extra
                  /\ PyCombos(roll).remaining = left(2..6)

\* C4 witness: 1..5 with a second 1 scores 600, 2..6 with a second 5 scores 800.
C4_Witness ==
    /\ scored = "scorers"
    /\ \/ roll = <<1, 2, 3, 4, 5, 1>> /\ py_score = 600
       \/ roll = <<5, 6, 5, 4, 3, 2>> /\ py_score = 800

(***************************************************************************)
(* Properties of the keep enumerator (SpecKeep)                            *)
(***************************************************************************)
Enumerated == scored = "enumerator"

\* The values of r at the indices I, in index order.
ValuesAt(r, I) ==
    LET idx == SelectSeq([i \in 1..Len(r) |-> i], LAMBDA i : i \in I)
    IN  [k \in 1..Len(idx) |-> r[idx[k]]]

OptionSets == {options[k].indices : k \in DOMAIN options}

IsPermutationOfFaces(r) == Len(r) = 6 /\ Range(r) = 1..6

\* C2 as stated: a permutation of 1..6 scores 1500 and the enumerator
\* returns one option only, all six dice.
C2_Original ==
    (Enumerated /\ IsPermutationOfFaces(roll)) =>
        /\ py_score = 1500
        /\ Len(options) = 1
        /\ options[1].indices = 1..6

\* C2 amended: a permutation of 1..6 scores 1500 and exactly one of the
\* returned options covers all six dice; it is the first one, with score
\* 1500.  The list has five more options: the 1, the 5, both, and the two
\* partial straights.
C2_OneFullOption ==
    (Enumerated /\ IsPermutationOfFaces(roll)) =>
        /\ py_score = 1500
        /\ Cardinality({k \in DOMAIN options : options[k].indices = 1..6}) = 1
        /\ options[1] = [indices |-> 1..6, score |-> 1500]
        /\ Len(options) = 6
        /\ \A k \in 2..Len(options) :
               ValuesAt(roll, options[k].indices) \in
                   {<<1>>, <<5>>} \cup {t \in [1..2 -> {1, 5}] : t[1] # t[2]}
                   \cup {t \in [1..5 -> Faces] : Range(t) \in {1..5, 2..6}}

C2_Witness ==
    /\ Enumerated
    /\ roll = <<3, 1, 6, 2, 5, 4>>
    /\ Len(options) = 6

\* C5: a roll with no 1, no 5 and no value three times scores 0 and has no
\* keep option.
C5_BustRoll ==
    (Enumerated /\ \A v \in Faces : Count(roll, v) < (IF v \in {1, 5} THEN 1 ELSE 3)) =>
        /\ py_score = 0
        /\ options = << >>

C5_Witness ==
    /\ Enumerated
    /\ roll = <<2, 2, 3, 3, 4, 6>>
    /\ options = << >>

\* C6: the enumerator returns exactly the non-empty index subsets with a
\* positive score that every removal of one die strictly lowers, each once
\* and with the score of its values; a single 1 or 5 is always an option.
C6_ExactlyPureSubsets ==
    Enumerated =>
        /\ \A I \in SUBSET (1..Len(roll)) :
               (I \in OptionSets) <=>
                   LET sc == score_dice_roll(ValuesAt(roll, I))
                   IN  /\ I # {}
                       /\ sc > 0
                       /\ \A i \in I : score_dice_roll(ValuesAt(roll, I \ {i})) < sc
        /\ Cardinality(OptionSets) = Len(options)
        /\ \A k \in DOMAIN options :
               options[k].score = score_dice_roll(ValuesAt(roll, options[k].indices))
        /\ \A i \in DOMAIN roll : roll[i] \in {1, 5} => {i} \in OptionSets

\* C6 witness: of 5,5,5,1 the three 5s with the 1 are an option, the three
\* 5s alone are one, two 5s with the 1 are one, and all options number 15.
C6_Witness ==
    /\ Enumerated
    /\ roll = <<5, 5, 5, 1>>
    /\ {1, 2, 3, 4} \in OptionSets
    /\ {1, 2, 4} \in OptionSets
    /\ Len(options) = 15

\* C7: the returned list is in non-increasing score order, so its first
\* option has the highest score; of 1,1,1,2,3,4 the first option keeps the
\* three 1s for 1000.
C7_SortedByScore ==
    Enumerated =>
        /\ \A k \in 1..(Len(options) - 1) : options[k].score >= options[k + 1].score
        /\ \A k \in DOMAIN options : options[1].score >= options[k].score
        /\ roll = <<1, 1, 1, 2, 3, 4>> =>
               options[1] = [indices |-> {1, 2, 3}, score |-> 1000]

C7_Witness ==
    /\ Enumerated
    /\ roll = <<1, 1, 1, 2, 3, 4>>
    /\ Len(options) = 7

(***************************************************************************)
(* Properties of the turn engine (Spec)                                    *)
(***************************************************************************)

\* C8: when a roll of a turn has no keep option the turn is over and has
\* returned score 0 with the bust flag, whatever its accumulated total.
C8_BustReturnsZero ==
    no_keeps => (pc = "done" /\ ret = [score |-> 0, did_bust |-> TRUE])

\* C8 witness: a bust on a later roll, with a positive total accumulated.
C8_Witness ==
    /\ no_keeps
    /\ roll_count > 1
    /\ total_score > 0
    /\ ret = [score |-> 0, did_bust |-> TRUE]

\* C9: with win_target W configured, a turn whose accumulated total has
\* reached W is over: no roll is made with a total of W or more.
C9_WinTargetEndsTurn ==
    pc = "rolling" => total_score < sim.win_target

\* C10: with bank_min_value and bank_min_applies_first_n_rolls set, the
\* turn is not banked on one of the first N rolls with a total below
\* bank_min_value.
C10_NoEarlyBankBelowMin ==
    (/\ last_choice = "bank"
     /\ sim.bank_min_value # 0
     /\ sim.bank_min_applies_first_n_rolls # 0
     /\ roll_count <= sim.bank_min_applies_first_n_rolls)
        => total_score >= sim.bank_min_value

\* C11: with no_bank_on_clear set, a step whose best-ranked keep uses every
\* die of the pool is not banked: the dice are kept, the pool is the full
\* set again and the turn goes on.
C11_NoBankOnClear ==
    (sim.no_bank_on_clear /\ clear_top) =>
        /\ last_choice = "refresh"
        /\ Len(current_dice) = dice_n

\* C12: a turn makes at most 50 rolls and every roll adds one to the roll
\* count, so every turn ends; the loop is left without a bust or a bank only
\* when the 50 rolls are made, and the turn then returns its accumulated
\* total with the bust flag false.
C12_TurnTerminates ==
    /\ [](/\ roll_count <= 50
          /\ pc = "rolling" => roll_count < 50 /\ current_dice # << >>
          /\ (pc = "done" /\ last_choice \in {"keep", "refresh"}) =>
                 /\ roll_count = 50
                 /\ ret = [score |-> total_score, did_bust |-> FALSE])
    /\ [][pc = "rolling" => roll_count' = roll_count + 1]_vars

\* C12 witness: a turn that has ended after five rolls or more.
C12_Witness ==
    /\ pc = "done"
    /\ roll_count >= 5

(***************************************************************************)
(* Properties of simulate_dice_combination (SpecSim)                       *)
(***************************************************************************)
Busts(q) == Cardinality({k \in DOMAIN q : q[k].did_bust})

RECURSIVE ScoreSum(_)
ScoreSum(q) == IF q = << >> THEN 0 ELSE q[1].score + ScoreSum(Tail(q))

\* a = p / q as fractions
FracIs(a, p, q) == a.num * q = p * a.den

\* C13: the returned expected_value is avg_score * (1 - bust_rate) of the
\* same result, with avg_score the sum of the trial scores over the trials
\* and bust_rate the busts over the trials.
C13_ExpectedValue ==
    sim_result.returned =>
        LET n == Len(trials)
            r == sim_result
        IN  /\ n = num_simulations
            /\ FracIs(r.avg_score, ScoreSum(trials), n)
            /\ FracIs(r.bust_rate, Busts(trials), n)
            /\ FracIs(r.expected_value,
                      r.avg_score.num * (r.bust_rate.den - r.bust_rate.num),
                      r.avg_score.den * r.bust_rate.den)
            /\ FracIs(r.expected_value,
                      ScoreSum(trials) * (n - Busts(trials)), n * n)

\* C13 witness: four trials, one bust, total 450: 112.5 * 0.75.
C13_Witness ==
    /\ sim_result.returned
    /\ Len(trials) = 4
    /\ Busts(trials) = 1
    /\ ScoreSum(trials) = 450
    /\ FracIs(sim_result.expected_value, 675, 8)

\* The orders in which the trials q can be run.
Orders(q) ==
    {[k \in DOMAIN q |-> q[f[k]]] :
        f \in {g \in [DOMAIN q -> DOMAIN q] :
                 \A a, b \in DOMAIN q : a # b => g[a] # g[b]}}

\* The accumulators after the trials q.
RECURSIVE AccAfter(_)
AccAfter(q) ==
    IF q = << >> THEN NoAcc
    ELSE UpdateStatistics(AccAfter(SubSeq(q, 1, Len(q) - 1)), q[Len(q)])

\* C14: the returned avg_score, bust_rate, avg_rolls, expected_value,
\* max_score and common_scores are those of every other execution order of
\* the same trials.
C14_OrderIndependent ==
    sim_result.returned =>
        \A q \in Orders(trials) :
            Statistics(AccAfter(q), num_simulations) = sim_result

(***************************************************************************)
(* Properties of play_game and simulate_games (SpecGames)                  *)
(***************************************************************************)
\* play_game has returned and no new game has started.
GameOver == g_pc \in {"loop", "returned"} /\ played # << >>

LastGame == played[Len(played)]

\* C16: when play_game has returned, exactly one side's total is at or
\* above win_target; that side played the last turn and is the winner, its
\* reported score is win_target and the other's is below; no earlier turn
\* of the game had brought a total to win_target.
C16_GameStopsAtTarget ==
    GameOver =>
        LET target == game.win_target
            log    == LastGame.game_log
            loser  == Other(LastGame.winner)
            score(side) == IF side = "player" THEN LastGame.player_score
                           ELSE LastGame.ai_score
        IN  /\ (player_total >= target) # (ai_total >= target)
            /\ LastGame.winner = IF player_total >= target THEN "player"
                                 ELSE "ai"
            /\ log # << >>
            /\ log[Len(log)].actor = LastGame.winner
            /\ score(LastGame.winner) = target
            /\ score(loser) < target
            /\ \A k \in 1..(Len(log) - 1) :
                   log[k].totals.player < target /\ log[k].totals.ai < target

\* C16 witness: a game that the second mover wins on the second turn with
\* a total above the target, after the first mover has scored.
C16_Witness ==
    /\ GameOver
    /\ LastGame.turns = 2
    /\ LastGame.winner = Other(LastGame.first_player)
    /\ player_total > 0
    /\ ai_total > 0
    /\ player_total + ai_total > game.win_target + 300

\* The example simulate_games should report for the games in ks: the
\* first of them, with its log.
FirstOf(ks) ==
    LET k == CHOOSE i \in ks : \A j \in ks : i <= j
    IN  <<[first_player |-> played[k].first_player,
           winner       |-> played[k].winner,
           player_score |-> played[k].player_score,
           ai_score     |-> played[k].ai_score,
           turns        |-> played[k].turns,
           entries      |-> played[k].game_log]>>

WonBy(side) == {k \in DOMAIN played : played[k].winner = side}

\* C17: the returned example_player_win is the first game the player won
\* and example_player_loss the first game the player lost, when there is
\* one; an example once taken is never replaced.
C17_FirstExamples ==
    /\ [](g_pc = "returned" =>
            /\ WonBy("player") # {} =>
                   games_out.example_player_win = FirstOf(WonBy("player"))
            /\ WonBy("ai") # {} =>
                   games_out.example_player_loss = FirstOf(WonBy("ai")))
    /\ [][/\ example_win # << >> => example_win' = example_win
          /\ example_loss # << >> => example_loss' = example_loss]_vars

\* C17 witness: two games won by the player, not the same game, and one
\* example.
C17_Witness ==
    /\ g_pc = "returned"
    /\ WonBy("player") = {1, 2}
    /\ played[1] # played[2]
    /\ games_out.example_player_win = FirstOf({1})
    /\ games_out.example_player_loss = << >>

(***************************************************************************)
(* Properties of the search (SpecSearch)                                   *)
(***************************************************************************)
\* C15: an exception raised by a progress or status callback never aborts
\* a computation; find_optimal_dice_combination is never left by an
\* exception of one of its callbacks.
C15_CallbacksSwallowed == ~(s_pc = "raised" /\ exc = "callback")

\* More dice are available than asked for, and the candidates are built:
\* the search is past its preparation.
CandidatesBuilt ==
    /\ Len(available_dice) > num_dice
    /\ s_pc \in {"prime", "evaluate", "done"}

\* How many dice of type t the candidate c holds.
CountIn(c, t) ==
    Cardinality({i \in DOMAIN c.dice : available_dice[c.dice[i]] = t})

\* The candidate c as a multiset over the types present.
MultisetOf(c) ==
    [t \in {available_dice[i] : i \in DOMAIN available_dice} |-> CountIn(c, t)]

RECURSIVE SumOver(_, _)
SumOver(f, S) ==
    IF S = {} THEN 0
    ELSE LET t == CHOOSE x \in S : TRUE
         IN  f[t] + SumOver(f, S \ {t})

\* The multisets of size num_dice over the types present that use no type
\* more often than it is available.
AllowedMultisets ==
    LET present == {available_dice[i] : i \in DOMAIN available_dice}
    IN  {m \in [present -> 0..num_dice] :
            /\ SumOver(m, present) = num_dice
            /\ \A t \in present :
                  m[t] <= Cardinality({i \in DOMAIN available_dice :
                                         available_dice[i] = t})}

\* C18: in exhaustive mode without a cap, with more dice available than
\* asked for, the candidates are exactly the multisets of size num_dice over
\* the types present within what is available of each type, each once, and
\* each candidate holds num_dice different dice.
C18_ExhaustiveCandidates ==
    (CandidatesBuilt /\ exhaustive /\ max_combos = 0) =>
        /\ {MultisetOf(combinations_to_test[k]) :
                k \in DOMAIN combinations_to_test} = AllowedMultisets
        /\ \A j, k \in DOMAIN combinations_to_test :
              j # k => MultisetOf(combinations_to_test[j])
                         # MultisetOf(combinations_to_test[k])
        /\ \A k \in DOMAIN combinations_to_test :
              LET c == combinations_to_test[k]
              IN  /\ Len(c.dice) = num_dice
                  /\ \A a, b \in DOMAIN c.dice : a # b => c.dice[a] # c.dice[b]
                  /\ \A a \in DOMAIN c.dice : c.dice[a] \in DOMAIN available_dice

\* C18 witness: an uncapped exhaustive search has built two candidates or
\* more, and one multiset of the types present is left out because a type
\* has too few dice.
C18_Witness ==
    /\ CandidatesBuilt /\ exhaustive /\ max_combos = 0
    /\ Len(combinations_to_test) >= 2
    /\ \E t \in DieTypes :
          LET have == Cardinality({i \in DOMAIN available_dice :
                                     available_dice[i] = t})
          IN  have > 0 /\ have < num_dice

\* C19: in sampled mode with more dice available than asked for, the search
\* builds its candidates, evaluates them and returns without raising: it is
\* never left by a NameError.
C19_SampledReturns == ~(~exhaustive /\ s_pc = "raised" /\ exc = "NameError")

\* The search returned a ranked result.
RankedResult ==
    /\ s_pc = "done"
    /\ "all_combinations" \in DOMAIN search_out

\* r.rank_score = 0.6 EV + 0.3 EV / avg_rolls + 0.1 (1 - bust_rate) EV, with
\* both sides multiplied by the denominators.
RankIsComposite(r) ==
    LET ev   == Reduce(r.expected_value)
        ar   == Reduce(r.avg_rolls)
        bust == Reduce(r.bust_rate)
        rank == Reduce(r.rank_score)
        sum  == Reduce([num |-> 6 * ev.num * ar.num * bust.den
                                + 3 * ev.num * ar.den * bust.den
                                + (bust.den - bust.num) * ev.num * ar.num,
                        den |-> 10 * ev.den * ar.num * bust.den])
    IN  rank.num * sum.den = sum.num * rank.den

\* C20: every evaluated candidate has the composite rank_score,
\* all_combinations is in non-increasing rank_score order, and the reported
\* best combination is its first element.
C20_RankedOutput ==
    /\ CandidatesBuilt => \A k \in DOMAIN results : RankIsComposite(results[k])
    /\ RankedResult =>
          LET all == search_out.all_combinations
          IN  /\ \A k \in DOMAIN all : RankIsComposite(all[k])
              /\ \A j, k \in DOMAIN all :
                    j < k => all[j].rank_score.num * all[k].rank_score.den
                               >= all[k].rank_score.num * all[j].rank_score.den
              /\ search_out.dice_combination = all[1].name
              /\ search_out.expected_score = all[1].expected_value
              /\ search_out.bust_rate = all[1].bust_rate

\* C20 witness: a search returned two results or more whose rank_scores
\* differ, the best one not being the first candidate.
C20_Witness ==
    /\ RankedResult
    /\ Len(search_out.all_combinations) >= 2
    /\ \E j, k \in DOMAIN search_out.all_combinations :
          search_out.all_combinations[j].rank_score
            # search_out.all_combinations[k].rank_score
    /\ search_out.dice_combination # combinations_to_test[1].name

\* The candidates whose evaluation gave a usable result.
Usable == (1..Len(combinations_to_test)) \ skipped

\* C21: a fault in the evaluation of a candidate (an error record or a
\* raising future) never aborts the search: the search is left only by an
\* exception of a callback; when it returns, the ranked output holds one
\* result for every candidate that did not fail, and none for one that did;
\* and when every candidate failed the result carries an error and no
\* ranking.
C21_FaultsAreSkipped ==
    /\ (s_pc = "raised" /\ exhaustive) => exc = "callback"
    /\ (CandidatesBuilt /\ s_pc = "evaluate" /\ in_flight = {})
          => ENABLED Rank
    /\ (CandidatesBuilt /\ s_pc = "done") =>
          /\ completed = Len(combinations_to_test)
          /\ IF Usable = {}
             THEN /\ "error" \in DOMAIN search_out
                  /\ "all_combinations" \notin DOMAIN search_out
                  /\ "dice_combination" \notin DOMAIN search_out
             ELSE /\ "error" \notin DOMAIN search_out
                  /\ Len(search_out.all_combinations) = Cardinality(Usable)
                  /\ \A i \in Usable :
                        \E k \in DOMAIN search_out.all_combinations :
                            search_out.all_combinations[k].name
                              = combinations_to_test[i].name
                  /\ \A i \in skipped :
                        \A k \in DOMAIN search_out.all_combinations :
                            search_out.all_combinations[k].name
                              # combinations_to_test[i].name

\* C21 witness: a search returned a ranking although the evaluation of one
\* of its candidates failed.
C21_Witness ==
    /\ CandidatesBuilt /\ s_pc = "done"
    /\ skipped # {}
    /\ Usable # {}
    /\ "all_combinations" \in DOMAIN search_out

\* C22: a request for more dice than are available is signalled as an error
\* before any trial runs: nothing is simulated for it, and what the search
\* returns carries an error.
C22_TooManyDiceRejected ==
    num_dice > Len(available_dice) =>
        /\ results = << >>
        /\ s_pc = "done" => "error" \in DOMAIN search_out

\* The orders in which n results can be appended.
Perms(n) ==
    {f \in [1..n -> 1..n] : \A a, b \in 1..n : a # b => f[a] # f[b]}

\* When the candidate of that name completed.
CompletedAt(name) ==
    CHOOSE p \in DOMAIN completion_order :
        combinations_to_test[completion_order[p]].name = name

\* C23: for fixed evaluation results the ranking does not depend on the
\* order of completion, except among equal rank_scores: had the returned
\* results been appended in any other order, the sort would give the same
\* rank_score at every place, the same result at every place whose
\* rank_score no other result has, and so the same best candidate when the
\* highest rank_score is not shared.
C23_CompletionOrderFree ==
    RankedResult =>
        LET all == search_out.all_combinations
            n   == Len(all)
        IN  \A f \in Perms(n) :
              LET alt == SortByRank([k \in 1..n |-> all[f[k]]], n)
              IN  \A k \in 1..n :
                    /\ alt[k].rank_score = all[k].rank_score
                    /\ (\A j \in 1..n :
                           j # k => all[j].rank_score # all[k].rank_score)
                         => alt[k] = all[k]

\* C23 witness: a search returned two results or more, the best having a
\* rank_score of its own and having completed after the second.
C23_Witness ==
    /\ RankedResult
    /\ Len(search_out.all_combinations) >= 2
    /\ search_out.all_combinations[1].rank_score
         # search_out.all_combinations[2].rank_score
    /\ CompletedAt(search_out.all_combinations[1].name)
         > CompletedAt(search_out.all_combinations[2].name)

(***************************************************************************)
(* More properties of the enumerator (SpecKeep)                            *)
(***************************************************************************)
\* C24: for every roll and every option of the enumerator, every non-empty
\* strict subset of the kept dice, of any size, scores strictly less than
\* the option.
C24_StrictSubsetsScoreLess ==
    Enumerated =>
        \A k \in DOMAIN options :
            \A J \in SUBSET options[k].indices :
                (J # {} /\ J # options[k].indices) =>
                    score_dice_roll(ValuesAt(roll, J)) < options[k].score

\* C24 witness: of 1,2,3,4,5,5 all six dice are an option (the straight and
\* the second 5), whose subsets of two to four dice are not reached by
\* removing one die.
C24_Witness ==
    /\ Enumerated
    /\ roll = <<1, 2, 3, 4, 5, 5>>
    /\ {1, 2, 3, 4, 5, 6} \in OptionSets

(***************************************************************************)
(* More properties of the turn engine (Spec)                               *)
(***************************************************************************)
\* A roll of the turn was made and had keep options: options is not empty.
Ranked == roll_count > 0 /\ turn_options # << >>

\* C25: every keep option that uses all dice of the current roll has the
\* clear bonus of 150 in its estimated value, also when the roll is the full
\* dice set.
C25_ClearBonus ==
    Ranked =>
        \A k \in DOMAIN turn_options :
            (/\ turn_options[k].desc = "keep"
             /\ Cardinality(turn_options[k].indices) = Len(current_roll))
                => turn_options[k].ev10 = 10 * turn_options[k].score + 1500

\* C26: the total of a turn starts at 0, never decreases from one roll to
\* the next while the turn is rolling, and every keep adds a score above 0.
C26_TotalNeverDecreases ==
    /\ []((pc = "rolling" /\ roll_count = 0) => total_score = 0)
    /\ [][pc = "rolling" =>
            /\ total_score' >= total_score
            /\ last_choice' \in {"keep", "refresh", "cap"} =>
                  /\ turn_options'[1].desc = "keep"
                  /\ turn_options'[1].score > 0
                  /\ total_score' > total_score]_vars

\* C26 witness: a turn is still rolling after two keeps, with a total
\* above 0.
C26_Witness ==
    /\ pc = "rolling"
    /\ roll_count = 2
    /\ total_score > 0

\* The dice of the pool d that a roll left after the keep of the
\* positions kept.
PoolWithout(d, kept) ==
    LET idx == SelectSeq([i \in 1..Len(d) |-> i], LAMBDA i : i \notin kept)
    IN  [k \in 1..Len(idx) |-> d[idx[k]]]

\* C27: a keep that uses every die of the pool is followed by a roll of the
\* full dice set, the total being kept; any other keep leaves the pool
\* without exactly the kept dice; so every roll uses between 1 and dice_n
\* dice.
C27_PoolAfterKeep ==
    /\ [](pc = "rolling" => (Len(current_dice) >= 1 /\ Len(current_dice) <= dice_n))
    /\ [](roll_count > 0 => (/\ Len(current_roll) = Len(rolled_dice)
                             /\ Len(current_roll) >= 1
                             /\ Len(current_roll) <= dice_n))
    /\ [][(pc = "rolling" /\ pc' = "rolling") =>
            LET kept == turn_options'[1].indices
            IN  /\ kept # {}
                /\ kept \subseteq 1..Len(current_dice)
                /\ IF Cardinality(kept) = Len(current_dice)
                   THEN /\ current_dice' = [i \in 1..dice_n |-> i]
                        /\ total_score' = total_score + turn_options'[1].score
                        /\ total_score' >= total_score
                   ELSE current_dice' = PoolWithout(current_dice, kept)]_vars

\* C27 witness: with three dice, a roll of one die follows a keep of two,
\* and the keep of that die is followed by a pool of three dice again.
C27_Witness ==
    /\ pc = "rolling"
    /\ dice_n = 3
    /\ Len(rolled_dice) = 1
    /\ Len(current_dice) = 3
    /\ total_score > 0

\* C29: on a roll with a keep option the engine banks exactly when the
\* total is strictly above the estimated value of every keep option (a tie
\* goes to the keep); it never banks at a total of 0, and a banked turn
\* returns the total it had before the roll.
C29_BankIffAboveEveryKeep ==
    [][(pc = "rolling" /\ turn_options' # << >>) =>
        /\ (last_choice' = "bank") <=>
              \A k \in DOMAIN turn_options' :
                  turn_options'[k].desc = "keep"
                      => 10 * total_score > turn_options'[k].ev10
        /\ last_choice' = "bank" =>
              /\ total_score > 0
              /\ pc' = "done"
              /\ total_score' = total_score
              /\ ret' = [score |-> total_score, did_bust |-> FALSE]]_vars

\* C29 witness: a turn kept on a roll whose best keep was worth exactly the
\* total: the tie went to the keep.
C29_Witness ==
    /\ Ranked
    /\ last_choice \in {"keep", "refresh"}
    /\ turn_options[1].desc = "keep"
    /\ turn_options[1].ev10 = 10 * (total_score - turn_options[1].score)
    /\ total_score > turn_options[1].score

(***************************************************************************)
(* More properties of the games (SpecGames)                                *)
(***************************************************************************)
\* The side that plays turn k of a game.
MoverOf(k) == IF k % 2 = 1 THEN first ELSE IF first = "player" THEN "ai" ELSE "player"

\* C28: in play_game the sides alternate from the first mover on; a turn
\* changes only the total of the side that plays it, a bust adds 0 and
\* passes the move to the other side, and the turn count returned is the
\* number of turns played.
C28_TurnsAlternate ==
    /\ [](g_pc = "playing" =>
            /\ current = MoverOf(turns + 1)
            /\ Len(full_log) = turns
            /\ \A k \in DOMAIN full_log : full_log[k].actor = MoverOf(k))
    /\ [](\A g \in DOMAIN played : played[g].turns = Len(played[g].game_log))
    /\ [][(g_pc = "playing" /\ turns' # turns /\ turns' # 0) =>
            /\ turns' = turns + 1
            /\ current' # current
            /\ current = "player" => ai_total' = ai_total
            /\ current = "ai" => player_total' = player_total
            /\ player_total' >= player_total /\ ai_total' >= ai_total
            /\ full_log'[turns'].did_bust =>
                  (player_total' = player_total /\ ai_total' = ai_total)]_vars

\* C28 witness: three turns of a game are played, one of them a bust, and
\* both sides have points.
C28_Witness ==
    /\ g_pc = "playing"
    /\ turns = 3
    /\ \E k \in DOMAIN full_log : full_log[k].did_bust
    /\ player_total > 0
    /\ ai_total > 0

(***************************************************************************)
(* Properties of the evaluation loop (SpecPool)                            *)
(***************************************************************************)
SeqRange(q) == {q[k] : k \in DOMAIN q}

NoRepeats(q) == \A a, b \in DOMAIN q : a # b => q[a] # q[b]

\* C30: under every interleaving of completions each payload is submitted
\* exactly once, no more than max_in_flight = max(workers * 4, 8)
\* evaluations are in flight, each completion is of a payload in flight and
\* is counted once with its result appended or passed over, and the loop
\* ends only when every payload has been submitted and completed.
C30_PoolAccounting ==
    (CandidatesBuilt /\ s_pc \in {"evaluate", "done"}) =>
        LET n == Len(combinations_to_test)
        IN  /\ Cardinality(in_flight)
                 <= Max(Max(1, cpu_count - 1) * 4, 8)
            /\ NoRepeats(submit_log)
            /\ SeqRange(submit_log) = 1..submitted
            /\ submitted <= n
            /\ NoRepeats(completion_order)
            /\ Len(completion_order) = completed
            /\ in_flight = SeqRange(submit_log) \ SeqRange(completion_order)
            /\ SeqRange(completion_order) \subseteq SeqRange(submit_log)
            /\ batch \subseteq in_flight
            /\ (s_pc = "evaluate" /\ in_flight # {}) => batch # {}
            /\ skipped \subseteq SeqRange(completion_order)
            /\ Len(results) = completed - Cardinality(skipped)
            /\ \A j, k \in DOMAIN results :
                   j # k => results[j].name # results[k].name
            /\ (in_flight = {} \/ s_pc = "done") =>
                   (submitted = n /\ completed = n)

\* C30 witness: a search with more candidates than max_in_flight has
\* returned; its last payload was submitted after the first completion.
C30_Witness ==
    /\ CandidatesBuilt
    /\ s_pc = "done"
    /\ Len(combinations_to_test) > Max(Max(1, cpu_count - 1) * 4, 8)
    /\ completed = Len(combinations_to_test)

=============================================================================
